---- MODULE Spec2Model ----
(***************************************************************************)
(* A model of promptkit's execution orchestrator (src/promptkit/runner.py): *)
(* PromptCache, PromptRunner.register_client, PromptRunner.run and          *)
(* PromptRunner.run_stream, with the clients, the prompt loader and the     *)
(* hook observers as nondeterministic collaborators.                        *)
(*                                                                         *)
(* Strings that the code inspects character by character (provider names)  *)
(* are sequences of one-character strings; all other strings are opaque.   *)
(* Temperatures are counted in units of 0.0001.                            *)
(***************************************************************************)
EXTENDS Integers, Sequences, FiniteSets, TLC

VARIABLES
    clients,        \* PromptRunner._clients: provider key -> client
    cache,          \* PromptCache._store: cache key -> output
    pc,             \* position of the current invocation
    kind,           \* "none", "run" or "stream"
    args,           \* arguments of the current invocation
    plan,           \* the _ExecutionPlan of the current invocation
    events,         \* hook dispatches of the current invocation, in order
    gen_calls,      \* client.generate invocations of the current invocation
    stream_calls,   \* client.stream_generate invocations of the current invocation
    lookups,        \* registry lookups (_resolve_client) of the current invocation
    response,       \* local `response` of run
    exc,            \* exception caught by the except clause
    outcome,        \* what the caller of the current invocation received
    collected,      \* local `collected` of run_stream
    received,       \* chunks the consumer of run_stream has received
    sent,           \* chunks the client's iterator has yielded
    cache_at_call,  \* history: the cache when the current invocation was called
    memo,           \* history: first generate output of a cached run, per arguments
    gen_total,      \* history: generate invocations of cached runs, per arguments
    ncalls,         \* history: invocations started
    reglog,         \* history: register_client calls, in order
    bk,             \* inputs and outputs of the build_key experiment
    passed,         \* arguments of the client call of the current invocation
    prev,           \* history: the invocation that finished last
    thr,            \* the invocations of SpecConc, one per caller
    wlog            \* history: the cache writes of SpecConc, in order

vars == <<clients, cache, pc, kind, args, plan, events, gen_calls, stream_calls,
          lookups, response, exc, outcome, collected, received, sent,
          cache_at_call, memo, gen_total, ncalls, reglog, bk, passed, prev,
          thr, wlog>>

-----------------------------------------------------------------------------
(* Bounds *)

MaxCalls == 2      \* invocations of run / run_stream in one behaviour
MaxChunks == 2     \* chunks a client's stream yields
MaxRegs == 2       \* register_client calls in one behaviour of SpecReg
MaxRunsReg == 1    \* invocations of run in one behaviour of SpecReg

-----------------------------------------------------------------------------
(* Values *)

None == "None"

\* Provider names as the caller or the prompt file may spell them.
ProviderStrings ==
    { <<>>, <<" ">>, <<"a">>, <<" ", "A">>, <<"a", " ">>, <<" ", "B", " ">> }

Whitespace == {" "}

\* str.lower on the characters in use.
lower_char(c) == CASE c = "A" -> "a" [] c = "B" -> "b" [] OTHER -> c

lower(s) == [i \in 1..Len(s) |-> lower_char(s[i])]

RECURSIVE lstrip(_)
lstrip(s) == IF s # <<>> /\ Head(s) \in Whitespace THEN lstrip(Tail(s)) ELSE s

RECURSIVE rstrip(_)
rstrip(s) ==
    IF s # <<>> /\ s[Len(s)] \in Whitespace THEN rstrip(SubSeq(s, 1, Len(s) - 1)) ELSE s

\* str.strip
strip(s) == rstrip(lstrip(s))

\* provider.strip().lower(), the registry key (runner.py:82 and :203).
provider_key_nostrip(provider) == lower(provider)
provider_key(provider) == lower(strip(provider))

\* The registered client objects and their attributes (LLMClient protocol).
ClientIds == {"c1", "c2"}

Client(c) ==
    CASE c = "c1" -> [model |-> "m1", temperature |-> 0, supports_tools |-> FALSE]
      [] c = "c2" -> [model |-> "m2", temperature |-> 7004, supports_tools |-> TRUE]

Outputs == {"o1", "o2"}
ClientErrors == {"RuntimeError: boom"}
Chunks == {"a", "b"}

\* Exceptions raised by the runner itself, by the loader and by observers.
PromptNotFound == "PromptNotFoundError"
StreamingStructured == "PromptValidationError: Streaming is not supported for structured prompts."
RenderFailed == "PromptValidationError: missing variable"
NoClient == "PromptProviderError: No LLM client registered for provider"
EmptyProviderKey == "PromptProviderError: Provider key must be a non-empty string."
ToolsUnsupported == "PromptProviderError: Client does not support tool execution."
ConfiguredToolsUnsupported == "PromptProviderError: Client does not support configured tools."
HookError == "ObserverError"

-----------------------------------------------------------------------------
(* The prompt source (loader): read-only to the runner *)

LoadedNames == {"greet", "json", "tooled"}
PromptNames == LoadedNames \cup {"nope"}

Definitions ==
    [n \in LoadedNames |->
        CASE n = "greet" ->
               [name |-> n,
                model |-> [provider |-> <<" ", "A">>, structured |-> FALSE],
                required |-> {"name"}, tools |-> None]
          [] n = "json" ->
               [name |-> n,
                model |-> [provider |-> <<"a">>, structured |-> TRUE],
                required |-> {"name"}, tools |-> None]
          [] n = "tooled" ->
               [name |-> n,
                model |-> [provider |-> <<"A">>, structured |-> FALSE],
                required |-> {"name"}, tools |-> <<"t1">>]]

\* Variable names in their string order.
VarOrder == <<"lang", "name">>
Rank(k) == CHOOSE i \in 1..Len(VarOrder) : VarOrder[i] = k

\* A mapping in insertion order: a sequence of <<key, value>> with distinct keys.
Keys(m) == {m[i][1] : i \in 1..Len(m)}

RECURSIVE InsertItem(_, _)
InsertItem(item, m) ==
    IF m = <<>> THEN <<item>>
    ELSE IF Rank(item[1]) <= Rank(Head(m)[1]) THEN <<item>> \o m
    ELSE <<Head(m)>> \o InsertItem(item, Tail(m))

\* sorted(variables.items()) kept as a mapping.
RECURSIVE sorted_items(_)
sorted_items(m) == IF m = <<>> THEN <<>> ELSE InsertItem(Head(m), sorted_items(Tail(m)))

\* PromptDefinition.render_with: (text, normalized variables) or a validation error.
render_with_lenient(definition, variables) ==
    [ok |-> TRUE,
     text |-> <<definition.name, sorted_items(variables)>>,
     variables |-> sorted_items(variables)]
render_with(definition, variables) ==
    IF ~(definition.required \subseteq Keys(variables))
    THEN [ok |-> FALSE, error |-> RenderFailed]
    ELSE [ok |-> TRUE,
          text |-> <<definition.name, sorted_items(variables)>>,
          variables |-> sorted_items(variables)]

\* PromptDefinition.build_tools: the configured tool list, None when not configured.
build_tools(definition) == definition.tools

-----------------------------------------------------------------------------
(* PromptCache *)

\* round(temperature, 3), in units of 0.0001: to the nearest multiple of ten.
\* Exact decimal
\* ties (last digit 5) go by the binary representation and are not drawn.
round3_none(t) == t
round3(t) == ((t + 5) \div 10) * 10

\* json.dumps(payload, sort_keys=True): the fields in key order, nested mappings
\* in key order.
json_dumps(payload) ==
    <<payload.model, payload.prompt, payload.provider, payload.temperature,
      sorted_items(payload.variables)>>

\* sha256(...).hexdigest(): injective for all practical purposes.
sha256(encoded) == <<"sha256", encoded>>

build_key_payload(prompt, model_name, provider, temperature, variables) ==
    [prompt |-> prompt, model |-> model_name, provider |-> provider,
     temperature |-> round3(temperature), variables |-> sorted_items(variables)]

build_key(prompt, model_name, provider, temperature, variables) ==
    sha256(json_dumps(build_key_payload(prompt, model_name, provider, temperature, variables)))

cache_get(store, key) == IF key \in DOMAIN store THEN store[key] ELSE None

cache_set_dropped(store, key, value) == store
cache_set_only(store, key, value) == [k \in {key} |-> value]
cache_set(store, key, value) ==
    [k \in DOMAIN store \cup {key} |-> IF k = key THEN value ELSE store[k]]

-----------------------------------------------------------------------------
(* Plan building *)

resolve_client(registry, provider) ==
    LET key == provider_key(provider) IN
    IF key \notin DOMAIN registry
    THEN [ok |-> FALSE, error |-> NoClient]
    ELSE [ok |-> TRUE, client |-> registry[key]]

resolve_tools_unchecked(definition, client, override_tools) ==
    [ok |-> TRUE,
     tools |-> IF override_tools # None THEN override_tools ELSE build_tools(definition)]
resolve_tools_truthy(definition, client, override_tools) ==
    IF override_tools # None /\ override_tools # <<>>
    THEN IF ~Client(client).supports_tools
         THEN [ok |-> FALSE, error |-> ToolsUnsupported]
         ELSE [ok |-> TRUE, tools |-> override_tools]
    ELSE LET configured == build_tools(definition) IN
         IF configured # None /\ configured # <<>> /\ ~Client(client).supports_tools
         THEN [ok |-> FALSE, error |-> ConfiguredToolsUnsupported]
         ELSE [ok |-> TRUE, tools |-> configured]
resolve_tools(definition, client, override_tools) ==
    IF override_tools # None
    THEN IF override_tools # <<>> /\ ~Client(client).supports_tools
         THEN [ok |-> FALSE, error |-> ToolsUnsupported]
         ELSE [ok |-> TRUE, tools |-> override_tools]
    ELSE LET configured == build_tools(definition) IN
         IF configured # None /\ configured # <<>> /\ ~Client(client).supports_tools
         THEN [ok |-> FALSE, error |-> ConfiguredToolsUnsupported]
         ELSE [ok |-> TRUE, tools |-> configured]

\* runner.py:165
streaming_rejected_never(streaming, definition) == FALSE
streaming_rejected(streaming, definition) == streaming /\ definition.model.structured

NoPlan == [built |-> FALSE]

BuildFailed(error, nlookups) ==
    [ok |-> FALSE, error |-> error, lookups |-> nlookups, plan |-> NoPlan]

build_execution_plan_toolkey(registry, prompt_name, variables, tools, streaming) ==
    IF prompt_name \notin DOMAIN Definitions THEN BuildFailed(PromptNotFound, 0)
    ELSE
    LET definition == Definitions[prompt_name] IN
    IF streaming_rejected(streaming, definition) THEN BuildFailed(StreamingStructured, 0)
    ELSE
    LET rendered == render_with(definition, variables) IN
    IF ~rendered.ok THEN BuildFailed(rendered.error, 0)
    ELSE
    LET found == resolve_client(registry, definition.model.provider) IN
    IF ~found.ok THEN BuildFailed(found.error, 1)
    ELSE
    LET resolved == resolve_tools(definition, found.client, tools) IN
    IF ~resolved.ok THEN BuildFailed(resolved.error, 1)
    ELSE
    LET cache_key ==
            IF streaming THEN ""
            ELSE <<build_key(prompt_name, Client(found.client).model,
                             definition.model.provider,
                             Client(found.client).temperature, rendered.variables),
                   IF resolved.tools = None THEN <<"absent">>
                   ELSE <<"given", resolved.tools>> >>
        context == [prompt_name |-> prompt_name, model |-> definition.model,
                    variables |-> rendered.variables,
                    rendered_prompt |-> rendered.text, tools |-> resolved.tools]
    IN [ok |-> TRUE, error |-> None, lookups |-> 1,
        plan |-> [built |-> TRUE, cache_key |-> cache_key, context |-> context,
                  client |-> found.client, definition |-> prompt_name,
                  rendered_prompt |-> rendered.text,
                  variables |-> rendered.variables, tools |-> resolved.tools]]
build_execution_plan(registry, prompt_name, variables, tools, streaming) ==
    IF prompt_name \notin DOMAIN Definitions THEN BuildFailed(PromptNotFound, 0)
    ELSE
    LET definition == Definitions[prompt_name] IN
    IF streaming_rejected(streaming, definition) THEN BuildFailed(StreamingStructured, 0)
    ELSE
    LET rendered == render_with(definition, variables) IN
    IF ~rendered.ok THEN BuildFailed(rendered.error, 0)
    ELSE
    LET found == resolve_client(registry, definition.model.provider) IN
    IF ~found.ok THEN BuildFailed(found.error, 1)
    ELSE
    LET resolved == resolve_tools(definition, found.client, tools) IN
    IF ~resolved.ok THEN BuildFailed(resolved.error, 1)
    ELSE
    LET cache_key ==
            IF streaming THEN ""
            ELSE build_key(prompt_name, Client(found.client).model,
                           definition.model.provider,
                           Client(found.client).temperature, rendered.variables)
        context == [prompt_name |-> prompt_name, model |-> definition.model,
                    variables |-> rendered.variables,
                    rendered_prompt |-> rendered.text, tools |-> resolved.tools]
    IN [ok |-> TRUE, error |-> None, lookups |-> 1,
        plan |-> [built |-> TRUE, cache_key |-> cache_key, context |-> context,
                  client |-> found.client, definition |-> prompt_name,
                  rendered_prompt |-> rendered.text,
                  variables |-> rendered.variables, tools |-> resolved.tools]]

-----------------------------------------------------------------------------
(* Inputs *)

RawVariables == { <<>>, << <<"name", "Ada">> >> }
ToolArguments == { None, <<>>, <<"t1">> }

NoArgs == [prompt_name |-> None, variables |-> <<>>, tools |-> None, use_cache |-> FALSE]
NoResponse == [reasoning |-> None, output |-> None]
Pending == [type |-> "pending", value |-> None]
Returned(v) == [type |-> "return", value |-> v]
Raised(e) == [type |-> "raise", value |-> e]
Exhausted == [type |-> "exhausted", value |-> None]
Closed == [type |-> "closed", value |-> None]

\* runner.py:229-235: None stays None, a sequence is copied into a list.
tools_argument(tools) == IF tools = None THEN None ELSE SubSeq(tools, 1, Len(tools))

\* What a client is called with: generate(prompt, tools=...) and
\* stream_generate(prompt, tools=...).
NoCall == [called |-> FALSE]
ClientCall(prompt, tools) == [called |-> TRUE, prompt |-> prompt, tools |-> tools]

\* The invocation that finished last, as the history keeps it.
NoPrev == [kind |-> "none"]

\* The callers of SpecConc.
Callers == {1, 2}
NoThread == [pc |-> "idle"]

\* History bookkeeping, per (prompt name, variables, tools) of the runs with use_cache.
ArgKey(a) ==
    <<a.prompt_name, a.variables, IF a.tools = None THEN <<"absent">> ELSE <<"given", a.tools>> >>
Count(f, k) == IF k \in DOMAIN f THEN f[k] ELSE 0
Bump(f, k) == [x \in DOMAIN f \cup {k} |-> IF x = k THEN Count(f, k) + 1 ELSE f[x]]
Remember(f, k, v) == IF k \in DOMAIN f THEN f ELSE [x \in DOMAIN f \cup {k} |-> IF x = k THEN v ELSE f[x]]

-----------------------------------------------------------------------------
(* Initial state: a freshly constructed PromptRunner *)

InitRunner ==
    /\ clients = <<>>
    /\ cache = <<>>
    /\ pc = "idle"
    /\ kind = "none"
    /\ args = NoArgs
    /\ plan = NoPlan
    /\ events = <<>>
    /\ gen_calls = 0
    /\ stream_calls = 0
    /\ lookups = 0
    /\ response = NoResponse
    /\ exc = None
    /\ outcome = Pending
    /\ collected = <<>>
    /\ received = <<>>
    /\ sent = <<>>
    /\ cache_at_call = <<>>
    /\ memo = <<>>
    /\ gen_total = <<>>
    /\ ncalls = 0
    /\ reglog = <<>>
    /\ passed = NoCall
    /\ prev = NoPrev
    /\ thr = [t \in Callers |-> NoThread]
    /\ wlog = <<>>

Init == InitRunner /\ bk = [stage |-> "unused"]

-----------------------------------------------------------------------------
(* PromptRunner.register_client *)

register_client(registry, provider, client) ==
    LET key == provider_key(provider) IN
    IF key = <<>>
    THEN [ok |-> FALSE, error |-> EmptyProviderKey, registry |-> registry]
    ELSE [ok |-> TRUE, error |-> None,
          registry |-> [k \in DOMAIN registry \cup {key} |->
                            IF k = key THEN client ELSE registry[k]]]

Between == pc \in {"idle", "done"}

\* Between two invocations nothing of the last one is kept.
RegisterCore(provider, client) ==
    LET r == register_client(clients, provider, client) IN
    /\ Between
    /\ clients' = r.registry
    /\ pc' = "idle"
    /\ kind' = "none"
    /\ outcome' = IF r.ok THEN Pending ELSE Raised(r.error)
    /\ args' = NoArgs
    /\ plan' = NoPlan
    /\ events' = <<>>
    /\ gen_calls' = 0
    /\ stream_calls' = 0
    /\ lookups' = 0
    /\ response' = NoResponse
    /\ exc' = None
    /\ collected' = <<>>
    /\ received' = <<>>
    /\ sent' = <<>>
    /\ cache_at_call' = <<>>
    /\ memo' = IF r.ok THEN <<>> ELSE memo
    /\ gen_total' = IF r.ok THEN <<>> ELSE gen_total
    /\ passed' = NoCall
    /\ UNCHANGED <<cache, ncalls, bk, thr, wlog>>

\* Spellings of the one provider the prompts of the main specification name.
MainProviders == { <<>>, <<"a">>, <<" ", "A">> }

RegisterClient ==
    \E provider \in MainProviders, client \in ClientIds :
        /\ RegisterCore(provider, client)
        /\ UNCHANGED <<reglog, prev>>

\* The same call, with the call and what it left behind written to the history.
RegisterClientLogged ==
    \E provider \in ProviderStrings, client \in ClientIds :
        /\ Len(reglog) < MaxRegs
        /\ RegisterCore(provider, client)
        /\ reglog' = Append(reglog, [provider |-> provider, client |-> client,
                                     raised |-> outcome'.value,
                                     registry |-> clients'])
        /\ UNCHANGED prev

-----------------------------------------------------------------------------
(* PromptRunner.run *)

Run(prompt_name, variables, tools, use_cache) ==
    LET b == build_execution_plan(clients, prompt_name, variables, tools, FALSE)
        a == [prompt_name |-> prompt_name, variables |-> variables,
              tools |-> tools, use_cache |-> use_cache]
    IN
    /\ Between
    /\ ncalls < MaxCalls
    /\ ncalls' = ncalls + 1
    /\ kind' = "run"
    /\ args' = a
    /\ plan' = b.plan
    /\ lookups' = b.lookups
    /\ events' = <<>>
    /\ gen_calls' = 0
    /\ stream_calls' = 0
    /\ response' = NoResponse
    /\ exc' = None
    /\ collected' = <<>>
    /\ received' = <<>>
    /\ sent' = <<>>
    /\ cache_at_call' = cache
    /\ IF b.ok
       THEN pc' = "before_run" /\ outcome' = Pending
       ELSE pc' = "done" /\ outcome' = Raised(b.error)
    /\ passed' = NoCall
    /\ UNCHANGED <<clients, cache, memo, gen_total, reglog, bk, thr, wlog>>

RunCall ==
    \E prompt_name \in PromptNames, variables \in RawVariables,
       tools \in ToolArguments, use_cache \in BOOLEAN :
        /\ Run(prompt_name, variables, tools, use_cache)
        /\ UNCHANGED prev

\* The three dispatches of HookManager, as the runner calls them: each adds one
\* event for the invocation.
fire_before(log, context) == Append(log, [hook |-> "before_run", context |-> context])

fire_after_dropped(log, context, resp) == log
fire_after(log, context, resp) ==
    Append(log, [hook |-> "after_run", context |-> context, response |-> resp])

fire_error_dropped(log, context, error) == log
fire_error_wrapped(log, context, error) ==
    Append(log, [hook |-> "on_error", context |-> context, error |-> "PromptKitError"])
fire_error(log, context, error) ==
    Append(log, [hook |-> "on_error", context |-> context, error |-> error])

HookNames(log) == [i \in 1..Len(log) |-> log[i].hook]

\* HookManager.before_run (runner.py:100 and :135): every observer is called in
\* order; an observer that raises aborts the dispatch and the invocation.
BeforeRun ==
    /\ pc = "before_run"
    /\ events' = fire_before(events, plan.context)
    /\ \/ /\ pc' = IF kind = "run" THEN "cache_lookup" ELSE "stream_generate"
          /\ UNCHANGED outcome
       \/ /\ pc' = "done"
          /\ outcome' = Raised(HookError)
    /\ UNCHANGED <<clients, cache, kind, args, plan, gen_calls, stream_calls,
                   lookups, response, exc, collected, received, sent,
                   cache_at_call, memo, gen_total, ncalls, reglog, bk, passed, prev, thr, wlog>>

\* runner.py:102-105
CacheHit_never(use_cache, cached) == FALSE
CacheHit_unasked(use_cache, cached) == cached # None
CacheHit(use_cache, cached) == use_cache /\ cached # None

CacheLookup ==
    /\ pc = "cache_lookup"
    /\ LET cached == cache_get(cache, plan.cache_key) IN
       IF CacheHit(args.use_cache, cached)
       THEN /\ pc' = "done"
            /\ outcome' = Returned(cached)
       ELSE /\ pc' = "generate"
            /\ UNCHANGED outcome
    /\ UNCHANGED <<clients, cache, kind, args, plan, events, gen_calls,
                   stream_calls, lookups, response, exc, collected, received,
                   sent, cache_at_call, memo, gen_total, ncalls,
                   reglog, bk, passed, prev, thr, wlog>>

\* runner.py:107-112: plan.client.generate returns a response or raises.
Generate ==
    /\ pc = "generate"
    /\ gen_calls' = gen_calls + 1
    /\ passed' = ClientCall(plan.rendered_prompt, tools_argument(plan.tools))
    /\ gen_total' = IF args.use_cache THEN Bump(gen_total, ArgKey(args)) ELSE gen_total
    /\ \/ \E out \in Outputs :
            /\ response' = [reasoning |-> "r", output |-> out]
            /\ memo' = IF args.use_cache THEN Remember(memo, ArgKey(args), out) ELSE memo
            /\ pc' = "store"
            /\ UNCHANGED exc
       \/ \E e \in ClientErrors :
            /\ exc' = e
            /\ pc' = "on_error"
            /\ UNCHANGED <<response, memo>>
    /\ UNCHANGED <<clients, cache, kind, args, plan, events, stream_calls,
                   lookups, outcome, collected, received, sent, cache_at_call,
                   ncalls, reglog, bk, prev, thr, wlog>>

\* runner.py:113-114 and :146-147: on_error is dispatched, then the caught
\* exception is re-raised; an observer that raises replaces it.
OnError ==
    /\ pc = "on_error"
    /\ events' = fire_error(events, plan.context, exc)
    /\ pc' = "done"
    /\ \/ outcome' = Raised(exc)
       \/ outcome' = Raised(HookError)
    /\ UNCHANGED <<clients, cache, kind, args, plan, gen_calls, stream_calls,
                   lookups, response, exc, collected, received, sent,
                   cache_at_call, memo, gen_total, ncalls, reglog, bk, passed, prev, thr, wlog>>

extract_output(r) == r.output

\* runner.py:115-118
StoreCache ==
    /\ pc = "store"
    /\ cache' = IF args.use_cache
                THEN cache_set(cache, plan.cache_key, extract_output(response))
                ELSE cache
    /\ pc' = "after_run"
    /\ UNCHANGED <<clients, kind, args, plan, events, gen_calls, stream_calls,
                   lookups, response, exc, outcome, collected, received, sent,
                   cache_at_call, memo, gen_total, ncalls, reglog, bk, passed, prev, thr, wlog>>

\* runner.py:120-121
AfterRun ==
    /\ pc = "after_run"
    /\ events' = fire_after(events, plan.context, response)
    /\ pc' = "done"
    /\ \/ outcome' = Returned(extract_output(response))
       \/ outcome' = Raised(HookError)
    /\ UNCHANGED <<clients, cache, kind, args, plan, gen_calls, stream_calls,
                   lookups, response, exc, collected, received, sent,
                   cache_at_call, memo, gen_total, ncalls, reglog, bk, passed, prev, thr, wlog>>

-----------------------------------------------------------------------------
(* PromptRunner.run_stream: a generator; its body runs only while the consumer
   is waiting for a chunk *)

\* Calling run_stream creates the generator and runs none of its body.
RunStream(prompt_name, variables, tools) ==
    /\ Between
    /\ ncalls < MaxCalls
    /\ ncalls' = ncalls + 1
    /\ kind' = "stream"
    /\ args' = [prompt_name |-> prompt_name, variables |-> variables,
                tools |-> tools, use_cache |-> FALSE]
    /\ plan' = NoPlan
    /\ pc' = "stream_created"
    /\ outcome' = Pending
    /\ lookups' = 0
    /\ events' = <<>>
    /\ gen_calls' = 0
    /\ stream_calls' = 0
    /\ response' = NoResponse
    /\ exc' = None
    /\ collected' = <<>>
    /\ received' = <<>>
    /\ sent' = <<>>
    /\ cache_at_call' = cache
    /\ passed' = NoCall
    /\ UNCHANGED <<clients, cache, memo, gen_total, reglog, bk, thr, wlog>>

RunStreamCall ==
    \E prompt_name \in PromptNames, variables \in RawVariables,
       tools \in ToolArguments :
        /\ RunStream(prompt_name, variables, tools)
        /\ UNCHANGED prev

\* The consumer asks for the first chunk: runner.py:131-133.
StreamStart ==
    /\ pc = "stream_created"
    /\ LET b == build_execution_plan(clients, args.prompt_name, args.variables,
                                     args.tools, TRUE)
       IN /\ plan' = b.plan
          /\ lookups' = b.lookups
          /\ IF b.ok
             THEN pc' = "before_run" /\ UNCHANGED outcome
             ELSE pc' = "done" /\ outcome' = Raised(b.error)
    /\ UNCHANGED <<clients, cache, kind, args, events, gen_calls, stream_calls,
                   response, exc, collected, received, sent, cache_at_call,
                   memo, gen_total, ncalls, reglog, bk, passed, prev, thr, wlog>>

\* runner.py:138-141: the client hands back its iterator, or raises at once.
StreamGenerate ==
    /\ pc = "stream_generate"
    /\ stream_calls' = stream_calls + 1
    /\ passed' = ClientCall(plan.rendered_prompt, tools_argument(plan.tools))
    /\ \/ pc' = "iterate" /\ UNCHANGED exc
       \/ \E e \in ClientErrors : exc' = e /\ pc' = "on_error"
    /\ UNCHANGED <<clients, cache, kind, args, plan, events, gen_calls, lookups,
                   response, outcome, collected, received, sent, cache_at_call,
                   memo, gen_total, ncalls, reglog, bk, prev, thr, wlog>>

\* What the consumer holds after the generator yields `chunk`.
Forward_lost(got, chunk) == got
Forward(got, chunk) == Append(got, chunk)

\* runner.py:142-144: the loop asks the client's iterator for its next chunk,
\* which yields one, ends, or raises.
Iterate ==
    /\ pc = "iterate"
    /\ \/ \E chunk \in Chunks :
            /\ Len(sent) < MaxChunks
            /\ sent' = Append(sent, chunk)
            /\ collected' = Append(collected, chunk)
            /\ received' = Forward(received, chunk)
            /\ pc' = "suspended"
            /\ UNCHANGED exc
       \/ /\ pc' = "stream_after"
          /\ UNCHANGED <<sent, collected, received, exc>>
       \/ \E e \in ClientErrors :
            /\ exc' = e
            /\ pc' = "on_error"
            /\ UNCHANGED <<sent, collected, received>>
    /\ UNCHANGED <<clients, cache, kind, args, plan, events, gen_calls,
                   stream_calls, lookups, response, outcome, cache_at_call,
                   memo, gen_total, ncalls, reglog, bk, passed, prev, thr, wlog>>

\* The consumer asks for the next chunk.
StreamResume ==
    /\ pc = "suspended"
    /\ pc' = "iterate"
    /\ UNCHANGED <<clients, cache, kind, args, plan, events, gen_calls,
                   stream_calls, lookups, response, exc, outcome, collected,
                   received, sent, cache_at_call, memo, gen_total,
                   ncalls, reglog, bk, passed, prev, thr, wlog>>

\* The consumer drops the generator before it starts or while it is suspended
\* at the yield: GeneratorExit is no Exception, neither except nor else runs.
StreamAbandon_finally ==
    /\ pc \in {"stream_created", "suspended"}
    /\ pc' = "done"
    /\ outcome' = Closed
    /\ events' = IF pc = "suspended"
                 THEN fire_after(events, plan.context, NoResponse)
                 ELSE events
    /\ UNCHANGED <<clients, cache, kind, args, plan, gen_calls,
                   stream_calls, lookups, response, exc, collected, received,
                   sent, cache_at_call, memo, gen_total, ncalls,
                   reglog, bk, passed, prev, thr, wlog>>
StreamAbandon ==
    /\ pc \in {"stream_created", "suspended"}
    /\ pc' = "done"
    /\ outcome' = Closed
    /\ UNCHANGED <<clients, cache, kind, args, plan, events, gen_calls,
                   stream_calls, lookups, response, exc, collected, received,
                   sent, cache_at_call, memo, gen_total, ncalls,
                   reglog, bk, passed, prev, thr, wlog>>

RECURSIVE join_reversed(_)
join_reversed(parts) ==
    IF parts = <<>> THEN "" ELSE join_reversed(Tail(parts)) \o Head(parts)
RECURSIVE join(_)
join(parts) == IF parts = <<>> THEN "" ELSE Head(parts) \o join(Tail(parts))

\* runner.py:149
stream_response(parts) == [reasoning |-> "", output |-> join(parts)]

\* runner.py:148-150: the else clause of the try.
StreamAfterRun_caching ==
    /\ pc = "stream_after"
    /\ response' = stream_response(collected)
    /\ events' = fire_after(events, plan.context, stream_response(collected))
    /\ cache' = cache_set(cache, plan.cache_key, join(collected))
    /\ pc' = "done"
    /\ outcome' = Exhausted
    /\ UNCHANGED <<clients, kind, args, plan, gen_calls, stream_calls,
                   lookups, exc, collected, received, sent, cache_at_call,
                   memo, gen_total, ncalls, reglog, bk, passed, prev, thr, wlog>>
StreamAfterRun ==
    /\ pc = "stream_after"
    /\ response' = stream_response(collected)
    /\ events' = fire_after(events, plan.context, stream_response(collected))
    /\ pc' = "done"
    /\ \/ outcome' = Exhausted
       \/ outcome' = Raised(HookError)
    /\ UNCHANGED <<clients, cache, kind, args, plan, gen_calls, stream_calls,
                   lookups, exc, collected, received, sent, cache_at_call,
                   memo, gen_total, ncalls, reglog, bk, passed, prev, thr, wlog>>

-----------------------------------------------------------------------------
(* The runner used by one caller, one invocation at a time *)

Next ==
    \/ RegisterClient
    \/ RunCall
    \/ BeforeRun
    \/ CacheLookup
    \/ Generate
    \/ OnError
    \/ StoreCache
    \/ AfterRun
    \/ RunStreamCall
    \/ StreamStart
    \/ StreamGenerate
    \/ Iterate
    \/ StreamResume
    \/ StreamAbandon
    \/ StreamAfterRun

Spec == Init /\ [][Next]_vars

-----------------------------------------------------------------------------
(* The registry under every spelling of the provider names, with its history *)

RunCallReg ==
    \E prompt_name \in {"greet", "tooled"} :
        /\ ncalls < MaxRunsReg
        /\ Run(prompt_name, << <<"name", "Ada">> >>, None, TRUE)
        /\ UNCHANGED prev

NextReg ==
    \/ RegisterClientLogged
    \/ RunCallReg
    \/ BeforeRun
    \/ CacheLookup
    \/ Generate
    \/ OnError
    \/ StoreCache
    \/ AfterRun

SpecReg == Init /\ [][NextReg]_vars

-----------------------------------------------------------------------------
(* One caller's invocations one after another, each remembered by the next *)

\* The invocation that has just finished, as the next call finds it.
LastInvocation ==
    [kind |-> kind, args |-> args, outcome |-> outcome, registry |-> clients,
     cache_before |-> cache_at_call]

KeepLast == prev' = IF kind = "none" THEN prev ELSE LastInvocation

SeqVariables == << <<"name", "Ada">> >>

RegisterClientSeq ==
    \E client \in ClientIds :
        /\ RegisterCore(<<"a">>, client)
        /\ KeepLast
        /\ UNCHANGED reglog

RunCallSeq ==
    \E prompt_name \in {"greet", "tooled"}, tools \in ToolArguments,
       use_cache \in BOOLEAN :
        /\ Run(prompt_name, SeqVariables, tools, use_cache)
        /\ KeepLast

RunStreamCallSeq ==
    \E prompt_name \in {"greet", "json"} :
        /\ RunStream(prompt_name, SeqVariables, None)
        /\ KeepLast

NextSeq ==
    \/ RegisterClientSeq
    \/ RunCallSeq
    \/ BeforeRun
    \/ CacheLookup
    \/ Generate
    \/ OnError
    \/ StoreCache
    \/ AfterRun
    \/ RunStreamCallSeq
    \/ StreamStart
    \/ StreamGenerate
    \/ Iterate
    \/ StreamResume
    \/ StreamAbandon
    \/ StreamAfterRun

SpecSeq == Init /\ [][NextSeq]_vars

-----------------------------------------------------------------------------
(* Two callers on one runner: each makes one run, and the steps of the two
   runs interleave. A step is one of run's calls; the cache's get and set are
   single dict operations, which the interpreter carries out one at a time. *)

frame == <<clients, pc, kind, args, plan, events, gen_calls, stream_calls,
           lookups, response, exc, outcome, collected, received, sent,
           cache_at_call, memo, gen_total, ncalls, reglog, bk, passed, prev>>

Unread == "unread"

\* The registry is set up before the callers start.
ConcRegister ==
    /\ \A t \in Callers : thr[t].pc = "idle"
    /\ \E client \in ClientIds : RegisterCore(<<"a">>, client)
    /\ UNCHANGED <<reglog, prev>>

\* runner.py:87-98
ConcRun(t) ==
    /\ thr[t].pc = "idle"
    /\ \E prompt_name \in {"greet", "tooled"}, use_cache \in BOOLEAN :
         LET b == build_execution_plan(clients, prompt_name, SeqVariables, None, FALSE) IN
         thr' = [thr EXCEPT ![t] =
                    [pc |-> IF b.ok THEN "before_run" ELSE "done",
                     args |-> [prompt_name |-> prompt_name, variables |-> SeqVariables,
                               tools |-> None, use_cache |-> use_cache],
                     plan |-> b.plan,
                     response |-> NoResponse,
                     exc |-> None,
                     read |-> Unread,
                     wrote |-> FALSE,
                     outcome |-> IF b.ok THEN Pending ELSE Raised(b.error)]]
    /\ UNCHANGED <<cache, wlog>>
    /\ UNCHANGED frame

\* runner.py:100
ConcBeforeRun(t) ==
    /\ thr[t].pc = "before_run"
    /\ \/ thr' = [thr EXCEPT ![t].pc = "cache_lookup"]
       \/ thr' = [thr EXCEPT ![t].pc = "done", ![t].outcome = Raised(HookError)]
    /\ UNCHANGED <<cache, wlog>>
    /\ UNCHANGED frame

\* runner.py:102-105
ConcCacheLookup(t) ==
    /\ thr[t].pc = "cache_lookup"
    /\ LET cached == cache_get(cache, thr[t].plan.cache_key) IN
       IF CacheHit(thr[t].args.use_cache, cached)
       THEN thr' = [thr EXCEPT ![t].pc = "done", ![t].read = cached,
                               ![t].outcome = Returned(cached)]
       ELSE thr' = [thr EXCEPT ![t].pc = "generate",
                               ![t].read = IF thr[t].args.use_cache THEN cached ELSE Unread]
    /\ UNCHANGED <<cache, wlog>>
    /\ UNCHANGED frame

\* runner.py:107-112
ConcGenerate(t) ==
    /\ thr[t].pc = "generate"
    /\ \/ \E out \in Outputs :
            thr' = [thr EXCEPT ![t].pc = "store",
                               ![t].response = [reasoning |-> "r", output |-> out]]
       \/ \E e \in ClientErrors :
            thr' = [thr EXCEPT ![t].pc = "on_error", ![t].exc = e]
    /\ UNCHANGED <<cache, wlog>>
    /\ UNCHANGED frame

\* runner.py:113-114
ConcOnError(t) ==
    /\ thr[t].pc = "on_error"
    /\ \/ thr' = [thr EXCEPT ![t].pc = "done", ![t].outcome = Raised(thr[t].exc)]
       \/ thr' = [thr EXCEPT ![t].pc = "done", ![t].outcome = Raised(HookError)]
    /\ UNCHANGED <<cache, wlog>>
    /\ UNCHANGED frame

\* runner.py:115-118
ConcStoreCache(t) ==
    /\ thr[t].pc = "store"
    /\ IF thr[t].args.use_cache
       THEN /\ cache' = cache_set(cache, thr[t].plan.cache_key,
                                  extract_output(thr[t].response))
            /\ wlog' = Append(wlog, [caller |-> t, key |-> thr[t].plan.cache_key,
                                     value |-> extract_output(thr[t].response)])
            /\ thr' = [thr EXCEPT ![t].pc = "after_run", ![t].wrote = TRUE]
       ELSE /\ thr' = [thr EXCEPT ![t].pc = "after_run"]
            /\ UNCHANGED <<cache, wlog>>
    /\ UNCHANGED frame

\* runner.py:120-121
ConcAfterRun(t) ==
    /\ thr[t].pc = "after_run"
    /\ \/ thr' = [thr EXCEPT ![t].pc = "done",
                              ![t].outcome = Returned(extract_output(thr[t].response))]
       \/ thr' = [thr EXCEPT ![t].pc = "done", ![t].outcome = Raised(HookError)]
    /\ UNCHANGED <<cache, wlog>>
    /\ UNCHANGED frame

ConcRunCall == \E t \in Callers : ConcRun(t)
ConcBefore == \E t \in Callers : ConcBeforeRun(t)
ConcLookup == \E t \in Callers : ConcCacheLookup(t)
ConcGenerateCall == \E t \in Callers : ConcGenerate(t)
ConcError == \E t \in Callers : ConcOnError(t)
ConcStore == \E t \in Callers : ConcStoreCache(t)
ConcAfter == \E t \in Callers : ConcAfterRun(t)

NextConc ==
    \/ ConcRegister
    \/ ConcRunCall
    \/ ConcBefore
    \/ ConcLookup
    \/ ConcGenerateCall
    \/ ConcError
    \/ ConcStore
    \/ ConcAfter

SpecConc == Init /\ [][NextConc]_vars

-----------------------------------------------------------------------------
(* PromptCache.build_key applied to two argument tuples *)

Temperatures == {0, 4, 7004, 7006}

KeyVariables ==
    { <<>>,
      << <<"name", "Ada">> >>,
      << <<"name", "Ada">>, <<"lang", "en">> >>,
      << <<"lang", "en">>, <<"name", "Ada">> >>,
      << <<"name", "Bob">>, <<"lang", "en">> >> }

KeyInputs ==
    [prompt : {"greet", "json"}, model_name : {"m1", "m2"},
     provider : {<<"a">>, <<"A">>}, temperature : Temperatures,
     variables : KeyVariables]

InitKey ==
    /\ InitRunner
    /\ bk \in [stage : {"inputs"}, a : KeyInputs, b : KeyInputs,
                key_a : {None}, key_b : {None}]

KeyOf(i) == build_key(i.prompt, i.model_name, i.provider, i.temperature, i.variables)

ApplyBuildKey ==
    /\ bk.stage = "inputs"
    /\ bk' = [bk EXCEPT !.stage = "keys", !.key_a = KeyOf(bk.a), !.key_b = KeyOf(bk.b)]
    /\ UNCHANGED <<clients, cache, pc, kind, args, plan, events, gen_calls,
                   stream_calls, lookups, response, exc, outcome, collected,
                   received, sent, cache_at_call, memo, gen_total,
                   ncalls, reglog, passed, prev, thr, wlog>>

NextKey == ApplyBuildKey

SpecKey == InitKey /\ [][NextKey]_vars

-----------------------------------------------------------------------------
(* Properties of run and run_stream, checked under Spec *)

IsRun == kind = "run"
IsStream == kind = "stream"
Done == pc = "done"
PlanBuilt == plan # NoPlan
Fired(name) == \E i \in 1..Len(events) : events[i].hook = name
CachedAtCall == cache_get(cache_at_call, plan.cache_key)
CachedRun == IsRun /\ args.use_cache

\* What an observer is handed at each of the three points.
BeforeEvent == [hook |-> "before_run", context |-> plan.context]
AfterEvent(r) == [hook |-> "after_run", context |-> plan.context, response |-> r]
ErrorEvent(e) == [hook |-> "on_error", context |-> plan.context, error |-> e]

C2_AsClaimed ==
    (IsRun /\ Done /\ outcome.type = "return")
        => HookNames(events) = <<"before_run", "after_run">>

\* C2 (amended): a run that returns an output its own generate call produced
\* has fired exactly before_run then after_run (with that response); a run that
\* returns a cached output has fired exactly one before_run and nothing else;
\* on_error fires in neither.
C2_SuccessfulRunHooks ==
    (IsRun /\ Done /\ outcome.type = "return") =>
        IF gen_calls = 0
        THEN /\ events = <<BeforeEvent>>
             /\ outcome.value = CachedAtCall
        ELSE /\ gen_calls = 1
             /\ events = <<BeforeEvent, AfterEvent(response)>>
             /\ outcome.value = response.output

C2_Witness ==
    /\ IsRun /\ Done /\ outcome.type = "return" /\ gen_calls = 1
    /\ HookNames(events) = <<"before_run", "after_run">>

\* C3 as claimed: every run whose plan was built and that ends by raising has
\* fired exactly one before_run and exactly one on_error, and no after_run.
C3_AsClaimed ==
    (IsRun /\ Done /\ PlanBuilt /\ outcome.type = "raise")
        => HookNames(events) = <<"before_run", "on_error">>

\* C3 (amended): a run whose plan was built and whose generate call raised has
\* fired exactly one before_run and then exactly one on_error, and no after_run;
\* a run that raises for another reason (an observer of before_run or of
\* after_run raised) has fired no on_error.
C3_FailingRunHooks ==
    (IsRun /\ Done /\ PlanBuilt /\ outcome.type = "raise") =>
        IF exc # None
        THEN /\ gen_calls = 1
             /\ events = <<BeforeEvent, ErrorEvent(exc)>>
        ELSE /\ outcome = Raised(HookError)
             /\ HookNames(events) \in {<<"before_run">>, <<"before_run", "after_run">>}

C3_Witness ==
    /\ IsRun /\ Done /\ PlanBuilt /\ exc \in ClientErrors
    /\ outcome = Raised(exc)
    /\ HookNames(events) = <<"before_run", "on_error">>

\* C4 as claimed: a run with use_cache whose key is in the cache when it is
\* called fires before_run exactly once, fires no after_run, invokes no
\* generate and returns the stored value.
C4_AsClaimed ==
    (CachedRun /\ PlanBuilt /\ CachedAtCall # None) =>
        /\ gen_calls = 0
        /\ ~Fired("after_run")
        /\ Done => /\ HookNames(events) = <<"before_run">>
                   /\ outcome = Returned(CachedAtCall)

\* C4 (amended): such a run fires before_run exactly once, fires no after_run,
\* invokes no generate, and returns the stored value unless an observer of
\* before_run raises, which ends the run with the observer's exception.
C4_CacheHit ==
    (CachedRun /\ PlanBuilt /\ CachedAtCall # None) =>
        /\ gen_calls = 0
        /\ ~Fired("after_run")
        /\ ~Fired("on_error")
        /\ cache = cache_at_call
        /\ Done => /\ HookNames(events) = <<"before_run">>
                   /\ outcome \in {Returned(CachedAtCall), Raised(HookError)}

C4_Witness ==
    /\ CachedRun /\ PlanBuilt /\ Done
    /\ CachedAtCall \in Outputs
    /\ outcome = Returned(CachedAtCall)
    /\ HookNames(events) = <<"before_run">>
    /\ gen_calls = 0

StructuredPrompt(name) == name \in DOMAIN Definitions /\ Definitions[name].model.structured

\* C5: run_stream of a structured prompt, once its first chunk is asked for,
\* fails with the validation error; no hook has fired, stream_generate was not
\* called and no client was looked up, whatever the variables, the tools and
\* the registry.
C5_StreamingRejected ==
    (IsStream /\ StructuredPrompt(args.prompt_name)) =>
        /\ events = <<>>
        /\ stream_calls = 0
        /\ gen_calls = 0
        /\ lookups = 0
        /\ plan = NoPlan
        /\ received = <<>>
        /\ pc \in {"stream_created", "done"}
        /\ Done => outcome \in {Raised(StreamingStructured), Closed}
        /\ (Done /\ outcome = Closed) => sent = <<>>

C5_Witness ==
    /\ IsStream /\ StructuredPrompt(args.prompt_name) /\ Done
    /\ outcome = Raised(StreamingStructured)
    /\ DOMAIN clients # {}
    /\ args.tools = <<"t1">>
    /\ args.variables # <<>>

\* The tool list a run asks for: the tools argument when given, else the
\* tools configured on the prompt definition.
RequestedTools(a) ==
    IF a.tools # None THEN a.tools ELSE Definitions[a.prompt_name].tools

\* The run gets as far as a client without tool support: the prompt exists,
\* its variables render, and the registry holds such a client for its provider.
MeetsClientWithoutTools(a) ==
    /\ a.prompt_name \in DOMAIN Definitions
    /\ render_with(Definitions[a.prompt_name], a.variables).ok
    /\ provider_key(Definitions[a.prompt_name].model.provider) \in DOMAIN clients
    /\ ~Client(clients[provider_key(Definitions[a.prompt_name].model.provider)]).supports_tools

\* C6: a run with a non-empty tool list, given as argument or configured on
\* the prompt, against a client without tool support fails with the
\* tools-unsupported error while the plan is built: no hook fires and generate
\* is not invoked.
C6_ToolsUnsupported ==
    (IsRun /\ MeetsClientWithoutTools(args)
           /\ RequestedTools(args) # None /\ RequestedTools(args) # <<>>) =>
        /\ Done
        /\ outcome \in {Raised(ToolsUnsupported), Raised(ConfiguredToolsUnsupported)}
        /\ (args.tools # None) = (outcome = Raised(ToolsUnsupported))
        /\ plan = NoPlan
        /\ events = <<>>
        /\ gen_calls = 0
        /\ cache = cache_at_call

C6_Witness ==
    /\ IsRun /\ MeetsClientWithoutTools(args) /\ Done
    /\ args.tools = <<"t1">>
    /\ outcome = Raised(ToolsUnsupported)
    /\ events = <<>>

\* C9 as claimed: when generate raises during run, on_error fires with that
\* exception, the caller receives that same exception, after_run does not fire
\* and nothing is written to the cache.
C9_AsClaimed ==
    (IsRun /\ Done /\ exc # None) =>
        /\ events = <<BeforeEvent, ErrorEvent(exc)>>
        /\ outcome = Raised(exc)
        /\ cache = cache_at_call

\* C9 (amended): when generate raises during run, on_error fires with that
\* exception, after_run does not fire, nothing is written to the cache, and the
\* caller receives that same exception unless an observer of on_error raises,
\* in which case the caller receives the observer's exception.
C9_ClientFailure ==
    /\ (IsRun /\ exc # None) =>
          /\ pc \in {"on_error", "done"}
          /\ cache = cache_at_call
          /\ ~Fired("after_run")
          /\ exc \in ClientErrors
    /\ (IsRun /\ Done /\ exc # None) =>
          /\ events = <<BeforeEvent, ErrorEvent(exc)>>
          /\ outcome \in {Raised(exc), Raised(HookError)}

C9_Witness ==
    /\ IsRun /\ Done /\ exc \in ClientErrors /\ args.use_cache
    /\ outcome = Raised(exc)
    /\ events[Len(events)] = ErrorEvent(exc)

\* The chunks of a sequence written one after the other, built from its end.
RECURSIVE InOrder(_)
InOrder(chunks) ==
    IF chunks = <<>> THEN ""
    ELSE InOrder(SubSeq(chunks, 1, Len(chunks) - 1)) \o chunks[Len(chunks)]

\* C10: when a run_stream sequence is consumed to normal exhaustion, the
\* consumer has received exactly the client's chunks in the client's order,
\* after_run has fired exactly once, after the last chunk, with the response
\* (reasoning "", output the concatenation of the chunks), and on_error has
\* not fired.
C10_StreamExhausted ==
    /\ (IsStream /\ Fired("after_run")) =>
          /\ Done
          /\ outcome \in {Exhausted, Raised(HookError)}
    /\ (IsStream /\ Done /\ outcome = Exhausted) =>
          /\ received = sent
          /\ collected = sent
          /\ stream_calls = 1
          /\ HookNames(events) = <<"before_run", "after_run">>
          /\ events[1] = BeforeEvent
          /\ events[2] = AfterEvent(response)
          /\ response.reasoning = ""
          /\ response.output = InOrder(sent)
          /\ ~Fired("on_error")

C10_Witness ==
    /\ IsStream /\ Done /\ outcome = Exhausted
    /\ received = <<"a", "b">>
    /\ events[2].response = [reasoning |-> "", output |-> "ab"]

-----------------------------------------------------------------------------
(* Properties of build_key, checked under SpecKey *)

ItemSet(m) == {m[i] : i \in 1..Len(m)}

SameButTemperature(a, b) ==
    /\ a.prompt = b.prompt
    /\ a.model_name = b.model_name
    /\ a.provider = b.provider
    /\ ItemSet(a.variables) = ItemSet(b.variables)

\* The multiple of 0.001 nearest to t (t in units of 0.0001, no exact ties).
Nearest(t) == CHOOSE m \in 0..(t + 10) : m % 10 = 0 /\ 2 * m < 2 * t + 10 /\ 2 * t - 10 < 2 * m

\* C7 as claimed: build_key returns one key for two tuples with equal prompt,
\* model and provider, variables equal as sets of pairs, and temperatures with
\* the same digits down to the third decimal place.
C7_AsClaimed ==
    (bk.stage = "keys" /\ SameButTemperature(bk.a, bk.b)
        /\ bk.a.temperature \div 10 = bk.b.temperature \div 10)
        => bk.key_a = bk.key_b

\* C7 (amended): build_key returns one key for two tuples with equal prompt,
\* model and provider, variables equal as sets of pairs (in any insertion
\* order), and temperatures that round to the same third decimal place.
C7_KeyDeterminism ==
    (bk.stage = "keys" /\ SameButTemperature(bk.a, bk.b)
        /\ Nearest(bk.a.temperature) = Nearest(bk.b.temperature))
        => bk.key_a = bk.key_b

C7_Witness ==
    /\ bk.stage = "keys" /\ SameButTemperature(bk.a, bk.b)
    /\ bk.a.variables # bk.b.variables
    /\ bk.a.temperature = 0 /\ bk.b.temperature = 4
    /\ bk.key_a = bk.key_b

-----------------------------------------------------------------------------
(* Properties of the registry, checked under SpecReg *)

\* The stripped, lower-cased form of a provider name, read off the string.
Inner(p) ==
    LET solid == {i \in 1..Len(p) : p[i] # " "} IN
    IF solid = {} THEN <<>>
    ELSE SubSeq(p, CHOOSE i \in solid : \A j \in solid : i <= j,
                   CHOOSE i \in solid : \A j \in solid : j <= i)

Normal(p) ==
    [i \in 1..Len(Inner(p)) |->
        CASE Inner(p)[i] = "A" -> "a" [] Inner(p)[i] = "B" -> "b" [] OTHER -> Inner(p)[i]]

RegistryBefore(i) == IF i = 1 THEN <<>> ELSE reglog[i - 1].registry

\* The registrations accepted so far for key k, by position in the history.
AcceptedFor(k) ==
    {i \in 1..Len(reglog) : Normal(reglog[i].provider) = k /\ k # <<>>}

Latest(k) == reglog[CHOOSE i \in AcceptedFor(k) : \A j \in AcceptedFor(k) : j <= i].client

\* The run got as far as looking its client up.
ReachedClientLookup(a) ==
    /\ a.prompt_name \in DOMAIN Definitions
    /\ render_with(Definitions[a.prompt_name], a.variables).ok

\* C8: after any sequence of register_client calls the registry maps each key
\* to the client of the latest accepted registration under that key; a
\* registration whose stripped, lower-cased provider is empty is rejected and
\* leaves the registry as it was; no entry is ever removed; and a run uses the
\* latest client registered under its prompt's provider key, or fails with the
\* provider-unavailable error when there is none.
C8_Registry ==
    /\ \A i \in 1..Len(reglog) :
          /\ (Normal(reglog[i].provider) = <<>>) = (reglog[i].raised = EmptyProviderKey)
          /\ Normal(reglog[i].provider) = <<>> => reglog[i].registry = RegistryBefore(i)
          /\ reglog[i].raised \in {None, EmptyProviderKey}
          /\ DOMAIN RegistryBefore(i) \subseteq DOMAIN reglog[i].registry
    /\ reglog # <<>> => clients = reglog[Len(reglog)].registry
    /\ DOMAIN clients = {Normal(reglog[i].provider) : i \in 1..Len(reglog)} \ {<<>>}
    /\ \A k \in DOMAIN clients : clients[k] = Latest(k)
    /\ (IsRun /\ ReachedClientLookup(args)) =>
          LET k == Normal(Definitions[args.prompt_name].model.provider) IN
          IF AcceptedFor(k) = {}
          THEN Done /\ outcome = Raised(NoClient) /\ plan = NoPlan
          ELSE \/ PlanBuilt /\ plan.client = Latest(k)
               \/ ~PlanBuilt /\ outcome = Raised(ConfiguredToolsUnsupported)
                  /\ ~Client(Latest(k)).supports_tools

C8_Witness ==
    /\ Len(reglog) = 2
    /\ reglog[1].provider = <<"a", " ">> /\ reglog[1].client = "c1"
    /\ reglog[2].provider = <<" ", "A">> /\ reglog[2].client = "c2"
    /\ reglog[1].registry # reglog[2].registry
    /\ IsRun /\ args.prompt_name = "tooled" /\ Done
    /\ plan.client = "c2"
    /\ outcome.type = "return"

-----------------------------------------------------------------------------
(* Further properties of run_stream, checked under Spec *)

\* C11 as claimed: when the client's chunk sequence raises during run_stream
\* after n chunks, the consumer has received exactly those n chunks, on_error
\* has fired exactly once with that exception, the consumer then receives that
\* exception, and after_run has not fired.
C11_AsClaimed ==
    (IsStream /\ Done /\ exc # None) =>
        /\ received = sent
        /\ events = <<BeforeEvent, ErrorEvent(exc)>>
        /\ outcome = Raised(exc)

\* C11 (amended): when the client's chunk sequence raises during run_stream
\* after n chunks (n >= 0), the consumer has received exactly those n chunks,
\* on_error fires exactly once with that exception, after_run never fires, and
\* the consumer then receives that exception at that point unless an observer
\* of on_error raises, in which case it receives the observer's exception.
C11_StreamFailure ==
    /\ (IsStream /\ exc # None) =>
          /\ pc \in {"on_error", "done"}
          /\ exc \in ClientErrors
          /\ stream_calls = 1
          /\ received = sent
          /\ collected = sent
          /\ ~Fired("after_run")
          /\ cache = cache_at_call
    /\ (IsStream /\ Done /\ exc # None) =>
          /\ events = <<BeforeEvent, ErrorEvent(exc)>>
          /\ outcome \in {Raised(exc), Raised(HookError)}
    /\ (IsStream /\ Fired("on_error")) => (Done /\ exc # None)

C11_Witness ==
    /\ IsStream /\ Done /\ exc \in ClientErrors
    /\ sent = <<"b">>
    /\ received = <<"b">>
    /\ outcome = Raised(exc)
    /\ events = <<BeforeEvent, ErrorEvent(exc)>>

\* C19: run_stream is lazy and promises an abandoning consumer nothing:
\* calling it builds no plan, fires no hook and calls no client until the
\* first chunk is asked for; and when the consumer stops consuming after
\* before_run has fired and before the client's sequence is exhausted or
\* fails, neither after_run nor on_error fires for that invocation.
C19_LazyAndAbandoned ==
    /\ (IsStream /\ pc = "stream_created") =>
          /\ plan = NoPlan
          /\ lookups = 0
          /\ events = <<>>
          /\ stream_calls = 0
          /\ gen_calls = 0
          /\ passed = NoCall
          /\ received = <<>>
          /\ outcome = Pending
    /\ (IsStream /\ outcome = Closed) =>
          /\ Done
          /\ exc = None
          /\ ~Fired("after_run")
          /\ ~Fired("on_error")
          /\ cache = cache_at_call
          /\ IF PlanBuilt
             THEN /\ events = <<BeforeEvent>>
                  /\ stream_calls = 1
                  /\ Len(sent) >= 1
                  /\ received = sent
             ELSE /\ events = <<>>
                  /\ stream_calls = 0
                  /\ sent = <<>>

C19_Witness ==
    /\ IsStream /\ Done /\ outcome = Closed
    /\ PlanBuilt
    /\ events = <<BeforeEvent>>
    /\ received = <<"a">>

-----------------------------------------------------------------------------
(* Properties of plan building and of the cache, checked under Spec *)

\* The error the arguments of an invocation must meet while its plan is built,
\* None when there is none: read off the arguments, the prompt source and the
\* registry, in the order of the five steps.
ExpectedPlanError(a, streaming, registry) ==
    IF a.prompt_name \notin LoadedNames THEN PromptNotFound
    ELSE IF streaming /\ StructuredPrompt(a.prompt_name) THEN StreamingStructured
    ELSE IF \E v \in Definitions[a.prompt_name].required : v \notin Keys(a.variables)
    THEN RenderFailed
    ELSE IF Normal(Definitions[a.prompt_name].model.provider) \notin DOMAIN registry
    THEN NoClient
    ELSE IF /\ RequestedTools(a) # None
            /\ RequestedTools(a) # <<>>
            /\ ~Client(registry[Normal(Definitions[a.prompt_name].model.provider)]).supports_tools
    THEN IF a.tools # None THEN ToolsUnsupported ELSE ConfiguredToolsUnsupported
    ELSE None

\* The invocation has run its plan building: a run as soon as it is called, a
\* run_stream once its first chunk was asked for.
PlanAttempted ==
    \/ IsRun
    \/ IsStream /\ pc # "stream_created" /\ ~(outcome = Closed /\ ~PlanBuilt)

C13_State ==
    /\ (PlanAttempted /\ ExpectedPlanError(args, IsStream, clients) # None) =>
          /\ Done
          /\ outcome = Raised(ExpectedPlanError(args, IsStream, clients))
          /\ plan = NoPlan
          /\ events = <<>>
          /\ gen_calls = 0
          /\ stream_calls = 0
          /\ passed = NoCall
          /\ cache = cache_at_call
    /\ (PlanAttempted /\ ExpectedPlanError(args, IsStream, clients) = None) => PlanBuilt

\* The step in which plan building fails changes neither registry nor cache.
C13_Step ==
    (pc' = "done" /\ plan' = NoPlan /\ outcome'.type = "raise") =>
        /\ clients' = clients
        /\ cache' = cache
        /\ events' = <<>>

\* C13: a run or run_stream invocation that fails while its plan is built
\* (prompt not found, streaming of a structured prompt, rendering failure, no
\* client for the provider, tools the client does not support) ends with that
\* error, fires no hook, calls neither generate nor stream_generate, and leaves
\* the cache and the registry as they were.
C13_PlanFailure == []C13_State /\ [][C13_Step]_vars

C13_Witness ==
    /\ IsStream /\ Done /\ outcome = Raised(RenderFailed)
    /\ cache # <<>>
    /\ DOMAIN clients # {}
    /\ events = <<>>
    /\ stream_calls = 0

\* A run with use_cache whose key was not in the cache when it was called.
MissingRun == CachedRun /\ PlanBuilt /\ CachedAtCall = None

LastEvent == events[Len(events)]

\* C14: in a run with use_cache that misses the cache and whose generate
\* succeeds, the output is written under the plan's key before after_run
\* fires: when after_run is about to be dispatched, and ever after (also when
\* an observer of after_run raised), the cache maps the key to the output of
\* that generate call, which is the output the run returns; before generate
\* has returned nothing is written.
C14_WriteBeforeAfterRun ==
    MissingRun =>
        /\ pc \in {"before_run", "cache_lookup", "generate", "store", "on_error"}
              => cache = cache_at_call
        /\ pc = "after_run" =>
              /\ ~Fired("after_run")
              /\ response.output \in Outputs
              /\ cache_get(cache, plan.cache_key) = response.output
        /\ Fired("after_run") =>
              /\ Done
              /\ LastEvent = AfterEvent(response)
              /\ cache_get(cache, plan.cache_key) = response.output
              /\ outcome \in {Returned(response.output), Raised(HookError)}
              /\ \A k \in DOMAIN cache_at_call :
                    k \in DOMAIN cache /\ cache[k] = cache_at_call[k]

C14_Witness ==
    /\ MissingRun /\ Done /\ Fired("after_run")
    /\ outcome = Raised(HookError)
    /\ cache_at_call # <<>>
    /\ cache_get(cache, plan.cache_key) = response.output
    /\ response.output \in Outputs

\* Plan building has got as far as the tool check: the prompt exists, may be
\* streamed if it is streamed, its variables render and its provider has a
\* client.
ReachedToolCheck ==
    /\ PlanAttempted
    /\ args.prompt_name \in LoadedNames
    /\ ~(IsStream /\ StructuredPrompt(args.prompt_name))
    /\ \A v \in Definitions[args.prompt_name].required : v \in Keys(args.variables)
    /\ Normal(Definitions[args.prompt_name].model.provider) \in DOMAIN clients

ClientOf(a) == clients[Normal(Definitions[a.prompt_name].model.provider)]

NonEmptyTools(a) == RequestedTools(a) # None /\ RequestedTools(a) # <<>>

\* Two tool lists are the same: both absent, or both given and equal.
SameTools(x, y) == IF x = None \/ y = None THEN x = None /\ y = None ELSE x = y

\* C15: the effective tool list of an invocation, the one in the plan, in the
\* context handed to every hook and in the client call, is the tools argument
\* whenever it is given, also when it is given empty, and the definition's
\* configured list only when it is absent; the tool check fails exactly when
\* that list is non-empty and the client does not support tools.
C15_EffectiveTools ==
    /\ PlanBuilt =>
          /\ SameTools(plan.tools, RequestedTools(args))
          /\ SameTools(plan.context.tools, RequestedTools(args))
          /\ \A i \in 1..Len(events) :
                SameTools(events[i].context.tools, RequestedTools(args))
    /\ passed # NoCall =>
          /\ PlanBuilt
          /\ SameTools(passed.tools, RequestedTools(args))
    /\ ReachedToolCheck =>
          /\ PlanBuilt = ~(NonEmptyTools(args) /\ ~Client(ClientOf(args)).supports_tools)
          /\ ~PlanBuilt =>
                outcome = Raised(IF args.tools # None THEN ToolsUnsupported
                                 ELSE ConfiguredToolsUnsupported)

C15_Witness ==
    /\ IsRun /\ Done /\ PlanBuilt
    /\ args.prompt_name = "tooled"
    /\ SameTools(args.tools, <<>>)
    /\ ~Client(ClientOf(args)).supports_tools
    /\ passed # NoCall
    /\ passed.prompt = plan.rendered_prompt
    /\ SameTools(passed.tools, <<>>)
    /\ outcome.type = "return"
    /\ SameTools(events[1].context.tools, <<>>)

\* A step keeps every cache entry with its value, and adds one only as the
\* cache write of a run with use_cache whose generate call has returned.
C16_Step ==
    /\ \A k \in DOMAIN cache : k \in DOMAIN cache' /\ cache'[k] = cache[k]
    /\ cache' # cache =>
          /\ kind = "run"
          /\ args.use_cache
          /\ pc = "store"
          /\ gen_calls = 1
          /\ response.output \in Outputs
          /\ DOMAIN cache' = DOMAIN cache \cup {plan.cache_key}
          /\ cache'[plan.cache_key] = response.output

\* C16: over any sequence of run and run_stream invocations executed one after
\* another, a cache entry is created only by a run with use_cache whose
\* generate succeeded, and once a key is present it is never removed and its
\* value never changes.
C16_CacheLifecycle == [][C16_Step]_vars

C16_Witness ==
    /\ IsRun /\ ~args.use_cache /\ Done /\ PlanBuilt
    /\ CachedAtCall \in Outputs
    /\ outcome.type = "return"
    /\ outcome.value # CachedAtCall
    /\ cache_get(cache, plan.cache_key) = CachedAtCall

\* A run with use_cache false whose plan was built.
UncachedRun == IsRun /\ ~args.use_cache /\ PlanBuilt

\* C20 as claimed (read for runs in which no observer raises): a run with
\* use_cache false invokes generate exactly once, returns the output of that
\* call, and leaves the cache as it was.
C20_AsClaimed ==
    (UncachedRun /\ Done /\ outcome # Raised(HookError)) =>
        /\ gen_calls = 1
        /\ outcome = Returned(response.output)
        /\ response.output \in Outputs
        /\ cache = cache_at_call

\* C20 (amended): a run with use_cache false never reads and never writes the
\* cache: the cache stays as it was at the call; generate is invoked exactly
\* once, also when the plan's key is present, unless an observer of before_run
\* raises first; and when the run returns, it returns the fresh output of that
\* generate call. When generate raises the run ends with an exception.
C20_Uncached ==
    UncachedRun =>
        /\ cache = cache_at_call
        /\ gen_calls <= 1
        /\ pc \in {"store", "after_run", "on_error"} => gen_calls = 1
        /\ (Done /\ gen_calls = 0) =>
              /\ outcome = Raised(HookError)
              /\ events = <<BeforeEvent>>
        /\ (Done /\ outcome.type = "return") =>
              /\ gen_calls = 1
              /\ response.output \in Outputs
              /\ outcome.value = response.output
              /\ passed # NoCall
        /\ (Done /\ outcome.type = "raise" /\ gen_calls = 1) =>
              \/ exc \in ClientErrors /\ outcome \in {Raised(exc), Raised(HookError)}
              \/ outcome = Raised(HookError) /\ Fired("after_run")

C20_Witness ==
    /\ UncachedRun /\ Done
    /\ CachedAtCall \in Outputs
    /\ gen_calls = 1
    /\ HookNames(events) = <<"before_run", "after_run">>
    /\ outcome = Returned(response.output)
    /\ response.output # CachedAtCall
    /\ cache = cache_at_call

-----------------------------------------------------------------------------
(* Properties of consecutive invocations, checked under SpecSeq *)

\* The invocation before this one was of the given kind, for the same prompt
\* name and variables.
FollowsSame(k) ==
    /\ prev.kind = k
    /\ prev.args.prompt_name = args.prompt_name
    /\ prev.args.variables = args.variables

\* The run has got past its cache lookup and its generate call.
Generated == pc \in {"store", "after_run"} \/ (Done /\ Fired("after_run"))

\* C12: run_stream never reads or writes the cache: in every state of a
\* run_stream invocation, whatever its outcome, the cache is the one it was
\* called with and its plan carries no cache key; and a run with use_cache
\* that follows a run_stream for the same prompt name and variables, when its
\* key was not in the cache before that run_stream, finds no entry and invokes
\* generate.
C12_StreamNeverCaches ==
    /\ IsStream =>
          /\ cache = cache_at_call
          /\ gen_calls = 0
          /\ PlanBuilt => plan.cache_key = ""
    /\ (CachedRun /\ PlanBuilt /\ FollowsSame("stream")
            /\ cache_get(prev.cache_before, plan.cache_key) = None) =>
          /\ CachedAtCall = None
          /\ pc # "done" \/ Fired("after_run") \/ outcome.type = "raise"
          /\ Generated => gen_calls = 1
          /\ (Done /\ outcome.type = "return") => outcome.value = response.output

\* The key the previous invocation was planned with.
PrevKey ==
    build_execution_plan(prev.registry, prev.args.prompt_name, prev.args.variables,
                         prev.args.tools, FALSE).plan.cache_key

\* This run with use_cache follows a run with use_cache for the same prompt
\* name and variables, on the same registry, with another tools argument, and
\* both passed the tool check.
FollowsWithOtherTools ==
    /\ CachedRun /\ PlanBuilt
    /\ FollowsSame("run")
    /\ prev.args.use_cache
    /\ prev.registry = clients
    /\ ~SameTools(prev.args.tools, args.tools)
    /\ ExpectedPlanError(prev.args, FALSE, prev.registry) = None

C12_Witness ==
    /\ CachedRun /\ Done /\ FollowsSame("stream")
    /\ prev.outcome = Exhausted
    /\ prev.registry = clients
    /\ gen_calls = 1
    /\ outcome.type = "return"

-----------------------------------------------------------------------------
(* Properties of interleaved runs, checked under SpecConc *)

ConcDone(t) == thr[t].pc = "done"
ConcBuilt(t) == thr[t].pc # "idle" /\ thr[t].plan # NoPlan
ConcKey(t) == thr[t].plan.cache_key
Succeeded(t) ==
    /\ ConcDone(t) /\ ConcBuilt(t)
    /\ thr[t].args.use_cache
    /\ thr[t].outcome.type = "return"

\* The writes to key k, by position in the history, and the value of the last.
WritesTo(k) == {i \in 1..Len(wlog) : wlog[i].key = k}
LastWritten(k) == wlog[CHOOSE i \in WritesTo(k) : \A j \in WritesTo(k) : j <= i].value

\* C17: for two runs whose steps interleave arbitrarily on one runner: when
\* their keys differ and both succeed with use_cache, the cache then holds
\* both entries, each with its own run's output; the cache holds exactly the
\* keys written, each with the value written last under it (for equal keys,
\* the output of whichever run wrote last); and every value a run read from
\* the cache is a value some run wrote under that key.
C17_Interleaved ==
    /\ DOMAIN cache = {wlog[i].key : i \in 1..Len(wlog)}
    /\ \A k \in DOMAIN cache : cache[k] = LastWritten(k)
    /\ \A i \in 1..Len(wlog) :
          /\ thr[wlog[i].caller].wrote
          /\ wlog[i].key = ConcKey(wlog[i].caller)
          /\ wlog[i].value = thr[wlog[i].caller].response.output
    /\ \A t \in Callers :
          (ConcBuilt(t) /\ thr[t].read # Unread /\ thr[t].read # None) =>
              \E i \in WritesTo(ConcKey(t)) : wlog[i].value = thr[t].read
    /\ \A t \in Callers, u \in Callers :
          (Succeeded(t) /\ Succeeded(u) /\ ConcKey(t) # ConcKey(u)) =>
              /\ {ConcKey(t), ConcKey(u)} \subseteq DOMAIN cache
              /\ cache[ConcKey(t)] = thr[t].outcome.value
              /\ cache[ConcKey(u)] = thr[u].outcome.value

C17_Witness ==
    /\ Succeeded(1) /\ Succeeded(2)
    /\ ConcKey(1) # ConcKey(2)
    /\ thr[1].wrote /\ thr[2].wrote
    /\ wlog[1].caller = 2
    /\ cache[ConcKey(1)] = "o1"
    /\ cache[ConcKey(2)] = "o2"

====
